---------------------------- MODULE Spec2Model ----------------------------
(***************************************************************************)
(* A model of the GEMM kernels of cuda-kernel/src/lib.rs (gemm_kernel,     *)
(* gemm_kernel_tiled, gemm_kernel_wmma), of the host library and program   *)
(* of src/lib.rs and src/main.rs, and of the layouts of                    *)
(* utils/src/tensor_defs.rs.                                               *)
(*                                                                         *)
(* Five specifications:                                                    *)
(*   Spec       - a launch over the whole grid with the host's geometry.   *)
(*                Blocks run one at a time, in the order of the grid (they *)
(*                share nothing but C, and every store to C is counted); a *)
(*                block of the tiled and of the fragment kernel advances   *)
(*                from barrier to barrier (load, barrier, accumulate,      *)
(*                barrier, epilogue).                                      *)
(*   SpecBlock  - one block of gemm_kernel_tiled with its threads          *)
(*                interleaved instruction by instruction, for the barrier  *)
(*                discipline itself.                                       *)
(*   SpecHost   - main and GemmKernel::launch, one step per driver call,   *)
(*                each of which may fail.                                  *)
(*   SpecPure   - one call of a host-side function (layouts, tile          *)
(*                configurations, calculate_block_size, verify_gemm).      *)
(*   SpecThread - one thread of one block of a launch, with the places it  *)
(*                reads and writes in global memory and in the scratch.    *)
(*                                                                         *)
(* f32 values are modelled by integers: every value the model produces is  *)
(* a small integer, which f32 represents exactly, so no rounding occurs.   *)
(* u32 index arithmetic stays far below 2^32 within the bounds used.       *)
(*                                                                         *)
(* thread::index_x/index_y are the thread's coordinates inside its block,  *)
(* block::index_x/index_y the block's coordinates in the grid, and         *)
(* thread::index_1d the linear index index_y * dim_x + index_x of the      *)
(* thread inside its block, which is how all three kernels use them.       *)
(***************************************************************************)
EXTENDS Integers, FiniteSets, Sequences, TLC

-----------------------------------------------------------------------------
(* Program constants (cuda-kernel/src/lib.rs).                             *)

TILE_M == 128
TILE_N == 128
TILE_K == 16
WARP_SIZE == 32
WMMA_M == 16
WMMA_N == 16
WMMA_K == 16

-----------------------------------------------------------------------------
(* Bounds of the model.                                                    *)

\* The long extent of a matrix is 16*j + 1 for j up to MaxSpan: one past a
\* multiple of the smallest block the host selects. The shapes are Dim x 1
\* and 2 x Dim.
MaxSpan == 2
\* k spans up to MaxChunks chunks of TILE_K.
MaxChunks == 2
\* Launches on the same buffers (main: one warm-up, then the benchmark runs).
MaxLaunches == 2

Dim(j) == 16 * j + 1
Shapes == {<<Dim(j), 1>> : j \in 0..MaxSpan} \cup {<<2, Dim(j)>> : j \in 0..MaxSpan}
KValues == {TILE_K * j + 1 : j \in 0..(MaxChunks - 1)}
Alphas == {1, 2}
Betas == {0, 1}
\* MaxThreadsPerBlock of the device: 1024 on current devices, 512 on old ones.
DeviceLimits == {512, 1024}
Kernels == {"gemm_kernel", "gemm_kernel_tiled", "gemm_kernel_wmma"}
Fills == {"ones", "mixed"}

Empty == [x \in {} |-> 0]

-----------------------------------------------------------------------------
(* Host geometry (src/lib.rs).                                             *)

CeilDiv(x, y) == (x + y - 1) \div y

calculate_block_size(max_threads_per_block) ==
    LET block_dim == IF max_threads_per_block >= 1024 THEN 32 ELSE 16
    IN  <<block_dim, block_dim, 1>>

\* grid_size of GemmKernel::launch.
GridSize(mm, nn, block_size) ==
    <<CeilDiv(nn, block_size[1]), CeilDiv(mm, block_size[2]), 1>>

GridBlocks(mm, nn, block_size) ==
    LET g == GridSize(mm, nn, block_size)
    IN  (0..(g[1] - 1)) \X (0..(g[2] - 1))

\* Threads of a block, each named by its thread::index_1d.
NumThreads(block_size) == block_size[1] * block_size[2] * block_size[3]
Threads(block_size) == 0..(NumThreads(block_size) - 1)
\* thread::index_x and thread::index_y of thread t.
IndexX(t, block_size) == t % block_size[1]
IndexY(t, block_size) == t \div block_size[1]

-----------------------------------------------------------------------------
(* Host buffers (src/main.rs).                                             *)

FillValue(fill, i) == IF fill = "ones" THEN 1 ELSE 1 + (i % 2)
HostMatrix(fill, len) == [i \in 0..(len - 1) |-> FillValue(fill, i)]
InitialC(cinit, len) ==
    [i \in 0..(len - 1) |-> IF cinit = "zeros" THEN 0 ELSE 5 + (i % 3)]

-----------------------------------------------------------------------------
(* State.                                                                  *)

VARIABLES
    kernel,        \* entry point the launch resolves
    max_threads,   \* DeviceAttribute::MaxThreadsPerBlock
    m, n, k, alpha, beta,
    d_a, d_b, d_c, \* device buffers (row-major)
    cinit,         \* how the host filled C before the first launch
    c_old,         \* contents of C when the current launch started
    launches,      \* launches made on these buffers
    saved_c,       \* result of the earlier run that this run is compared with
    saved_kernel,  \* kernel of that earlier run, "none" when there is none
    todo,          \* blocks of the grid that have not run yet
    cur,           \* block that is running
    phase,         \* "idle", "load", "acc", "epilogue", "done", "aborted"
    tile_idx,      \* K-chunk of the running block
    TILE_A, TILE_B,\* shared scratch of gemm_kernel_tiled (elements written so far)
    SMEM_A, SMEM_B,\* shared scratch of gemm_kernel_wmma (elements written so far)
    sum,           \* per-thread accumulator of gemm_kernel_tiled
    frag_c,        \* per-thread accumulator fragment of gemm_kernel_wmma
    barriers,      \* block-wide barriers the running block has passed
    trapped,       \* threads of the running block stopped by a failed bounds check
    writes,        \* per element of C: stores made by the current launch
    c_reads,       \* global loads from C made by the current launch
    pc, t_tile,    \* SpecBlock: position and K-chunk of each group of threads
    arrived,       \* SpecBlock: groups waiting at the barrier
    tag_A, tag_B,  \* SpecBlock: chunk whose load last completed, per scratch element
    hpc,           \* SpecHost: position of main, and of launch inside it
    outcome,       \* SpecHost: "running", or what main returned: "ok", "err"
    failed_op,     \* SpecHost: the operation that failed, "none" when none has
    pending,       \* SpecHost: launches enqueued on the stream and not yet synchronized
    started,       \* SpecHost: kernels handed to the device by launch!
    operands,      \* SpecHost: shapes of the A, B, C buffers the caller passes
    arg, ret,      \* SpecPure: arguments of a call of a pure function, and its result
    tid,           \* SpecThread: thread::index_1d of the thread that is followed
    global_acc,    \* SpecThread: its accesses to A, B, C so far: <<slot, row, col, index>>
    scratch_wr,    \* SpecThread: its scratch stores in the load of this chunk: <<i, row, col>>
    scratch_rd     \* SpecThread: its scratch loads after the barrier of this chunk

host_vars == <<hpc, outcome, failed_op, pending, started, operands>>
call_vars == <<arg, ret>>
trace_vars == <<tid, global_acc, scratch_wr, scratch_rd>>
input_vars == <<max_threads, m, n, k, alpha, beta, d_a, d_b, host_vars, call_vars,
                trace_vars>>
launch_vars == <<input_vars, kernel, cinit>>
block_vars == <<cur, tile_idx, TILE_A, TILE_B, SMEM_A, SMEM_B, sum, frag_c,
                barriers, trapped>>
thread_vars == <<pc, t_tile, arrived, tag_A, tag_B>>
vars == <<launch_vars, block_vars, thread_vars, d_c, c_old, launches, saved_c,
          saved_kernel, todo, phase, writes, c_reads>>

block_size == calculate_block_size(max_threads)
CIndices == 0..(m * n - 1)

Min(x, y) == IF x < y THEN x ELSE y

\* The host is not modelled in this specification, and no pure function is called.
HostIdle ==
    /\ hpc = "none" /\ outcome = "none" /\ failed_op = "none"
    /\ pending = 0 /\ started = 0 /\ operands = Empty
CallIdle == arg = Empty /\ ret = Empty
\* No single thread is followed in this specification.
TraceIdle ==
    tid = 0 /\ global_acc = Empty /\ scratch_wr = Empty /\ scratch_rd = Empty

\* The block of the grid that runs next: the first, row by row, of those that
\* have not run.
Scheduled ==
    {b \in todo : \A o \in todo : b[2] < o[2] \/ (b[2] = o[2] /\ b[1] <= o[1])}

\* mem after the stores of the threads W: thread t stores st[t].val at idx[t].
StoreAll(mem, W, idx, st) ==
    LET touched == {idx[t] : t \in W}
        new == [i \in touched |-> st[CHOOSE t \in W : idx[t] = i].val]
    IN  new @@ mem

\* writes after the stores of the threads W.
CountAll(cnt, W, idx) ==
    LET touched == {idx[t] : t \in W}
        new == [i \in touched |-> cnt[i] + Cardinality({t \in W : idx[t] = i})]
    IN  new @@ cnt

-----------------------------------------------------------------------------
(* gemm_kernel: one thread per output element, no shared memory.           *)

GemmRow(tx, blk, bs) == blk[2] * bs[2] + (tx \div bs[1])
GemmCol(tx, blk, bs) == blk[1] * bs[1] + (tx % bs[1])

RECURSIVE GemmInner(_, _, _, _, _)
GemmInner(row, col, p, tile_end, acc) ==
    IF p >= tile_end THEN acc
    ELSE GemmInner(row, col, p + 1, tile_end,
                   acc + d_a[row * k + p] * d_b[p * n + col])

RECURSIVE GemmTiles(_, _, _, _)
GemmTiles(row, col, tile, acc) ==
    IF tile >= CeilDiv(k, TILE_K) THEN acc
    ELSE LET tile_start == tile * TILE_K
             tile_end == Min(tile_start + TILE_K, k)
         IN  GemmTiles(row, col, tile + 1,
                       GemmInner(row, col, tile_start, tile_end, acc))

\* A store that blends the old value of C whatever beta is.
GemmStoreAlways(s, c_val_old) == [val |-> alpha * s + beta * c_val_old, rd |-> 1]

\* c_val of gemm_kernel and whether C was loaded for it.
GemmStore(s, c_val_old) ==
    IF beta = 0 THEN [val |-> alpha * s, rd |-> 0]
    ELSE [val |-> alpha * s + beta * c_val_old, rd |-> 1]

\* All threads of block blk run gemm_kernel to its end; they share nothing.
GemmBlock(blk) ==
    /\ kernel = "gemm_kernel"
    /\ phase = "idle"
    /\ blk \in todo
    /\ \E bs \in {block_size} :
       \E W \in {{tx \in Threads(bs) :
                     ~(GemmRow(tx, blk, bs) >= m \/ GemmCol(tx, blk, bs) >= n)}} :
         LET c_idx == [tx \in W |-> GemmRow(tx, blk, bs) * n + GemmCol(tx, blk, bs)]
             St == [tx \in W |->
                      GemmStore(GemmTiles(GemmRow(tx, blk, bs), GemmCol(tx, blk, bs), 0, 0),
                                d_c[c_idx[tx]])]
         IN  /\ d_c' = StoreAll(d_c, W, c_idx, St)
             /\ writes' = CountAll(writes, W, c_idx)
             /\ c_reads' = c_reads + Cardinality({tx \in W : St[tx].rd = 1})
    /\ todo' = todo \ {blk}
    /\ cur' = blk
    /\ UNCHANGED <<launch_vars, thread_vars, c_old, launches, saved_c, saved_kernel,
                   phase, tile_idx, TILE_A, TILE_B, SMEM_A, SMEM_B, sum, frag_c,
                   barriers, trapped>>

-----------------------------------------------------------------------------
(* gemm_kernel_tiled: block-shared tiles of A and B, two barriers a chunk. *)
(* The model keeps the accumulator of the threads that reach the final     *)
(* store (row < m, col < n); the accumulator of any other thread is never  *)
(* used.                                                                   *)

TiledRow(ty, blk) == blk[2] * TILE_M + ty
TiledCol(tx, blk) == blk[1] * TILE_N + tx

\* Threads of the block that pass the guard of the final store.
TiledStoring(blk, bs) ==
    {t \in Threads(bs) : TiledRow(IndexY(t, bs), blk) < m /\ TiledCol(IndexX(t, bs), blk) < n}

\* TILE_A[r][c] and TILE_B[r][c] are kept under the keys r * TILE_K + c and
\* r * TILE_N + c.
KeyA(r, c) == r * TILE_K + c
KeyB(r, c) == r * TILE_N + c

\* Value thread (tx, ty) stores into TILE_A[ty][tx] for chunk tile.
TiledLoadA(tx, ty, blk, tile) ==
    LET global_row == blk[2] * TILE_M + ty
        global_col_k == tile * TILE_K + tx
    IN  IF global_row < m /\ global_col_k < k
        THEN d_a[global_row * k + global_col_k]
        ELSE 0

\* Value thread (tx, ty) stores into TILE_B[ty][tx] for chunk tile.
TiledLoadB(tx, ty, blk, tile) ==
    LET global_row_k == tile * TILE_K + ty
        global_col == blk[1] * TILE_N + tx
    IN  IF global_row_k < k /\ global_col < n
        THEN d_b[global_row_k * n + global_col]
        ELSE 0

\* Threads that take the A load branch, and those that take the B load branch.
TiledLoadersA(bs) == {t \in Threads(bs) : IndexY(t, bs) < TILE_M /\ IndexX(t, bs) < TILE_K}
TiledLoadersB(bs) == {t \in Threads(bs) : IndexY(t, bs) < TILE_K /\ IndexX(t, bs) < TILE_N}

RECURSIVE TiledDot(_, _, _, _, _)
TiledDot(tx, ty, kk, tile_k_end, acc) ==
    IF kk >= tile_k_end THEN acc
    ELSE TiledDot(tx, ty, kk + 1, tile_k_end,
                  IF ty < TILE_M /\ tx < TILE_N
                  THEN acc + TILE_A[KeyA(ty, kk)] * TILE_B[KeyB(kk, tx)]
                  ELSE acc)

\* c_val of gemm_kernel_tiled and whether C was loaded for it.
TiledStore(s, c_val_old) ==
    IF beta = 0 THEN [val |-> alpha * s, rd |-> 0]
    ELSE [val |-> alpha * s + beta * c_val_old, rd |-> 1]

\* Prologue of block blk: sum = 0, before the first chunk.
TiledStart(blk) ==
    /\ kernel = "gemm_kernel_tiled"
    /\ phase = "idle"
    /\ blk \in todo
    /\ todo' = todo \ {blk}
    /\ cur' = blk
    /\ sum' = [t \in TiledStoring(blk, block_size) |-> 0]
    /\ tile_idx' = 0
    /\ TILE_A' = Empty
    /\ TILE_B' = Empty
    /\ barriers' = 0
    /\ phase' = IF CeilDiv(k, TILE_K) > 0 THEN "load" ELSE "epilogue"
    /\ UNCHANGED <<launch_vars, thread_vars, d_c, c_old, launches, saved_c,
                   saved_kernel, SMEM_A, SMEM_B, frag_c, trapped, writes, c_reads>>

\* Every thread of the block makes its loads of chunk tile_idx and reaches
\* the barrier after them.
TiledLoad ==
    /\ kernel = "gemm_kernel_tiled"
    /\ phase = "load"
    /\ LET bs == block_size
           LA == TiledLoadersA(bs)
           LB == TiledLoadersB(bs)
           newA == [e \in {KeyA(IndexY(t, bs), IndexX(t, bs)) : t \in LA} |->
                       TiledLoadA(e % TILE_K, e \div TILE_K, cur, tile_idx)]
           newB == [e \in {KeyB(IndexY(t, bs), IndexX(t, bs)) : t \in LB} |->
                       TiledLoadB(e % TILE_N, e \div TILE_N, cur, tile_idx)]
       IN  /\ TILE_A' = newA @@ TILE_A
           /\ TILE_B' = newB @@ TILE_B
    /\ barriers' = barriers + 1
    /\ phase' = "acc"
    /\ UNCHANGED <<launch_vars, thread_vars, d_c, c_old, launches, saved_c,
                   saved_kernel, todo, cur, tile_idx, SMEM_A, SMEM_B, sum, frag_c,
                   trapped, writes, c_reads>>

\* Every thread accumulates chunk tile_idx from the scratch and reaches the
\* barrier after the loop.
TiledAccumulate ==
    /\ kernel = "gemm_kernel_tiled"
    /\ phase = "acc"
    /\ LET bs == block_size
           tile_start_k == tile_idx * TILE_K
           tile_k_end == Min(TILE_K, k - tile_start_k)
       IN  sum' = [t \in DOMAIN sum |->
                      TiledDot(IndexX(t, bs), IndexY(t, bs), 0, tile_k_end, sum[t])]
    /\ barriers' = barriers + 1
    /\ tile_idx' = tile_idx + 1
    /\ phase' = IF tile_idx + 1 < CeilDiv(k, TILE_K) THEN "load" ELSE "epilogue"
    /\ UNCHANGED <<launch_vars, thread_vars, d_c, c_old, launches, saved_c,
                   saved_kernel, todo, cur, TILE_A, TILE_B, SMEM_A, SMEM_B, frag_c,
                   trapped, writes, c_reads>>

\* The final store of every thread with row < m and col < n.
TiledEpilogue ==
    /\ kernel = "gemm_kernel_tiled"
    /\ phase = "epilogue"
    /\ LET bs == block_size
           W == DOMAIN sum
           c_idx == [t \in W |->
                       TiledRow(IndexY(t, bs), cur) * n + TiledCol(IndexX(t, bs), cur)]
           St == [t \in W |-> TiledStore(sum[t], d_c[c_idx[t]])]
       IN  /\ d_c' = StoreAll(d_c, W, c_idx, St)
           /\ writes' = CountAll(writes, W, c_idx)
           /\ c_reads' = c_reads + Cardinality({t \in W : St[t].rd = 1})
    /\ phase' = "idle"
    /\ UNCHANGED <<launch_vars, block_vars, thread_vars, c_old, launches, saved_c,
                   saved_kernel, todo>>

-----------------------------------------------------------------------------
(* gemm_kernel_wmma: each warp accumulates a 16x16 sub-tile in per-lane    *)
(* fragments. The model keeps the accumulator slots that reach the final   *)
(* store; any other slot is never used.                                    *)

Lanes == 0..(WARP_SIZE - 1)
FragSlots == 0..7

WarpId(t) == t \div WARP_SIZE
LaneId(t) == t % WARP_SIZE
WarpRow(w, blk) == (blk[2] * 4 + (w \div 2)) * WMMA_M
WarpCol(w, blk) == (blk[1] * 4 + (w % 2)) * WMMA_N
WarpRowLocal(w) == (w \div 2) * WMMA_M
WarpColLocal(w) == (w % 2) * WMMA_N

\* (row_offset, col_offset) of slot i of a lane: in the A fragment and in the
\* accumulator, and in the B fragment.
FragRowA(lane, i) == (lane \div 4) * 2 + (i \div 4)
\* A column offset that tells only two lanes of a group of four apart.
FragColANarrow(lane, i) == (i % 4) * 4 + (lane % 2)
FragColA(lane, i) == (i % 4) * 4 + (lane % 4)
FragRowB(lane, i) == (i \div 4) * 4 + (lane \div 8)
FragColB(lane, i) == (lane % 8) * 2 + ((i % 4) \div 2)

\* SMEM_A is [[f32; WMMA_K]; WMMA_M * 4], SMEM_B is [[f32; WMMA_N * 4]; WMMA_K];
\* SMEM_A[r][c] and SMEM_B[r][c] are kept under these keys.
SmemKeyA(r, c) == r * WMMA_K + c
SmemKeyB(r, c) == r * (WMMA_N * 4) + c

\* Cooperative load: the linear indices idx = tid * elements_per_thread + i.
ElementsPerThreadA(bs) == (WMMA_M * 4 * WMMA_K) \div NumThreads(bs)
ElementsPerThreadB(bs) == (WMMA_K * WMMA_N * 4) \div NumThreads(bs)
WmmaLoadIdxA(bs) ==
    {t * ElementsPerThreadA(bs) + i : t \in Threads(bs), i \in 0..(ElementsPerThreadA(bs) - 1)}
WmmaLoadIdxB(bs) ==
    {t * ElementsPerThreadB(bs) + i : t \in Threads(bs), i \in 0..(ElementsPerThreadB(bs) - 1)}

\* Value stored into SMEM_A[row_a][col_a] for chunk k_tile.
WmmaLoadA(row_a, col_a, blk, k_tile) ==
    LET global_row == blk[2] * WMMA_M * 4 + row_a
        global_col == k_tile * WMMA_K + col_a
    IN  IF global_row < m /\ global_col < k
        THEN d_a[global_row * k + global_col]
        ELSE 0

\* Value stored into SMEM_B[row_b][col_b] for chunk k_tile.
WmmaLoadB(row_b, col_b, blk, k_tile) ==
    LET global_row == k_tile * WMMA_K + row_b
        global_col == blk[1] * WMMA_N * 4 + col_b
    IN  IF global_row < k /\ global_col < n
        THEN d_b[global_row * n + global_col]
        ELSE 0

\* A fragment load indexes SMEM_A or SMEM_B outside the array: the bounds
\* check of the indexing fails and the thread stops in the panic handler.
FragIndexFails(w, lane, i) ==
    \/ /\ FragRowA(lane, i) < WMMA_M /\ FragColA(lane, i) < WMMA_K
       /\ \/ WarpRowLocal(w) + FragRowA(lane, i) >= WMMA_M * 4
          \/ FragColA(lane, i) >= WMMA_K
    \/ /\ FragRowB(lane, i) < WMMA_K /\ FragColB(lane, i) < WMMA_N
       /\ \/ FragRowB(lane, i) >= WMMA_K
          \/ WarpColLocal(w) + FragColB(lane, i) >= WMMA_N * 4

\* Per device limit: the threads of a block in which a fragment load fails.
FailingThreads ==
    [d \in DeviceLimits |->
        {t \in Threads(calculate_block_size(d)) :
            \E i \in FragSlots : FragIndexFails(WarpId(t), LaneId(t), i)}]

\* Positions of the 16x16 tile that some slot of the A fragment (and of the
\* accumulator), and some slot of the B fragment, holds.
HeldA == {<<FragRowA(lane, i), FragColA(lane, i)>> : lane \in Lanes, i \in FragSlots}
HeldB == {<<FragRowB(lane, i), FragColB(lane, i)>> : lane \in Lanes, i \in FragSlots}

\* wmma_mma_sync, D = A * B + C on the 16x16x16 tile that the warp's
\* fragments hold. The slot of frag_a at position (r, p) was loaded from
\* SMEM_A[warp_row_local + r][p], the slot of frag_b at position (p, c) from
\* SMEM_B[p][warp_col_local + c]; a position that no slot holds is not in the
\* fragment and does not enter the product.
RECURSIVE MmaDot(_, _, _, _, _, _, _)
MmaDot(w, r, c, p, acc, heldA, heldB) ==
    IF p >= WMMA_K THEN acc
    ELSE MmaDot(w, r, c, p + 1,
                IF <<r, p>> \in heldA /\ <<p, c>> \in heldB
                THEN acc + SMEM_A[SmemKeyA(WarpRowLocal(w) + r, p)]
                           * SMEM_B[SmemKeyB(p, WarpColLocal(w) + c)]
                ELSE acc,
                heldA, heldB)

\* frag_c[i] of thread t after wmma_mma_sync.
WmmaMmaSync(t, i, acc, heldA, heldB) ==
    MmaDot(WarpId(t), FragRowA(LaneId(t), i), FragColA(LaneId(t), i), 0, acc, heldA, heldB)

\* Accumulator slots, as t * 8 + i, that pass both guards of the final store.
WmmaStoring(blk, bs) ==
    LET warps == {w \in 0..((NumThreads(bs) \div WARP_SIZE) - 1) :
                     WarpRow(w, blk) < m /\ WarpCol(w, blk) < n}
    IN  {s \in UNION {(w * WARP_SIZE * 8)..((w + 1) * WARP_SIZE * 8 - 1) : w \in warps} :
            /\ WarpRow(WarpId(s \div 8), blk) + FragRowA(LaneId(s \div 8), s % 8) < m
            /\ WarpCol(WarpId(s \div 8), blk) + FragColA(LaneId(s \div 8), s % 8) < n}

\* c_val of gemm_kernel_wmma for a slot already scaled by alpha, and whether
\* C was loaded for it.
WmmaStore(scaled, c_val_old) ==
    IF beta = 0 THEN [val |-> scaled, rd |-> 0]
    ELSE [val |-> scaled + beta * c_val_old, rd |-> 1]

\* Prologue of block blk: frag_c = 0, before the first chunk.
WmmaStart(blk) ==
    /\ kernel = "gemm_kernel_wmma"
    /\ phase = "idle"
    /\ blk \in todo
    /\ todo' = todo \ {blk}
    /\ cur' = blk
    /\ frag_c' = [s \in WmmaStoring(blk, block_size) |-> 0]
    /\ tile_idx' = 0
    /\ SMEM_A' = Empty
    /\ SMEM_B' = Empty
    /\ barriers' = 0
    /\ trapped' = {}
    /\ phase' = IF CeilDiv(k, WMMA_K) > 0 THEN "load" ELSE "epilogue"
    /\ UNCHANGED <<launch_vars, thread_vars, d_c, c_old, launches, saved_c,
                   saved_kernel, TILE_A, TILE_B, sum, writes, c_reads>>

\* The cooperative load of chunk tile_idx by every thread of the block, up to
\* the barrier after it.
WmmaLoad ==
    /\ kernel = "gemm_kernel_wmma"
    /\ phase = "load"
    /\ LET bs == block_size
           newA == [e \in {SmemKeyA(idx \div WMMA_K, idx % WMMA_K) : idx \in WmmaLoadIdxA(bs)} |->
                       WmmaLoadA(e \div WMMA_K, e % WMMA_K, cur, tile_idx)]
           newB == [e \in {SmemKeyB(idx \div (WMMA_N * 4), idx % (WMMA_N * 4)) :
                               idx \in WmmaLoadIdxB(bs)} |->
                       WmmaLoadB(e \div (WMMA_N * 4), e % (WMMA_N * 4), cur, tile_idx)]
       IN  /\ SMEM_A' = newA @@ SMEM_A
           /\ SMEM_B' = newB @@ SMEM_B
    /\ barriers' = barriers + 1
    /\ phase' = "acc"
    /\ UNCHANGED <<launch_vars, thread_vars, d_c, c_old, launches, saved_c,
                   saved_kernel, todo, cur, tile_idx, TILE_A, TILE_B, sum, frag_c,
                   trapped, writes, c_reads>>

\* Fragment loads, wmma_mma_sync and the barrier after it. A thread whose
\* fragment load fails its bounds check traps, which ends the kernel: the
\* launch is over and stream.synchronize() reports the failure.
WmmaCompute ==
    /\ kernel = "gemm_kernel_wmma"
    /\ phase = "acc"
    /\ IF FailingThreads[max_threads] # {}
       THEN /\ trapped' = FailingThreads[max_threads]
            /\ phase' = "aborted"
            /\ UNCHANGED <<frag_c, barriers, tile_idx>>
       ELSE /\ \E heldA \in {HeldA} : \E heldB \in {HeldB} :
                 frag_c' = [s \in DOMAIN frag_c |->
                               WmmaMmaSync(s \div 8, s % 8, frag_c[s], heldA, heldB)]
            /\ barriers' = barriers + 1
            /\ tile_idx' = tile_idx + 1
            /\ phase' = IF tile_idx + 1 < CeilDiv(k, WMMA_K) THEN "load" ELSE "epilogue"
            /\ UNCHANGED trapped
    /\ UNCHANGED <<launch_vars, thread_vars, d_c, c_old, launches, saved_c,
                   saved_kernel, todo, cur, TILE_A, TILE_B, SMEM_A, SMEM_B, sum,
                   writes, c_reads>>

\* frag_c scaled by alpha, then the final store of every slot in bounds.
WmmaEpilogue ==
    /\ kernel = "gemm_kernel_wmma"
    /\ phase = "epilogue"
    /\ LET W == DOMAIN frag_c
           c_idx == [s \in W |->
                       (WarpRow(WarpId(s \div 8), cur) + FragRowA(LaneId(s \div 8), s % 8)) * n
                       + WarpCol(WarpId(s \div 8), cur) + FragColA(LaneId(s \div 8), s % 8)]
           St == [s \in W |-> WmmaStore(frag_c[s] * alpha, d_c[c_idx[s]])]
       IN  /\ d_c' = StoreAll(d_c, W, c_idx, St)
           /\ writes' = CountAll(writes, W, c_idx)
           /\ c_reads' = c_reads + Cardinality({s \in W : St[s].rd = 1})
    /\ phase' = "idle"
    /\ UNCHANGED <<launch_vars, block_vars, thread_vars, c_old, launches, saved_c,
                   saved_kernel, todo>>

-----------------------------------------------------------------------------
(* The launch (GemmKernel::launch) and the runs made with it.              *)

\* stream.synchronize() returns Ok: every block of the grid has run.
Synchronize ==
    /\ phase = "idle"
    /\ todo = {}
    /\ phase' = "done"
    /\ UNCHANGED <<launch_vars, block_vars, thread_vars, d_c, c_old, launches,
                   saved_c, saved_kernel, todo, writes, c_reads>>

\* main launches again on the same buffers (warm-up, then benchmark runs).
Relaunch ==
    /\ phase = "done"
    /\ launches < MaxLaunches
    /\ saved_kernel = "none"
    /\ launches' = launches + 1
    /\ c_old' = d_c
    /\ todo' = GridBlocks(m, n, block_size)
    /\ phase' = "idle"
    /\ writes' = [i \in CIndices |-> 0]
    /\ c_reads' = 0
    /\ UNCHANGED <<launch_vars, block_vars, thread_vars, d_c, saved_c, saved_kernel>>

\* The program is run again on the same A, B, m, n, k, alpha, beta, and its
\* result is kept for comparison: either the same kernel on a C buffer that
\* holds arbitrary values instead of the zeros of main, or gemm_kernel_wmma
\* in place of gemm_kernel_tiled on the same initial C.
FreshRun ==
    /\ phase = "done"
    /\ launches = 1
    /\ saved_kernel = "none"
    /\ saved_c' = d_c
    /\ saved_kernel' = kernel
    /\ \/ /\ kernel' = kernel
          /\ cinit' = "garbage"
       \/ /\ kernel = "gemm_kernel_tiled"
          /\ kernel' = "gemm_kernel_wmma"
          /\ cinit' = cinit
    /\ d_c' = InitialC(cinit', m * n)
    /\ c_old' = d_c'
    /\ todo' = GridBlocks(m, n, block_size)
    /\ phase' = "idle"
    /\ writes' = [i \in CIndices |-> 0]
    /\ c_reads' = 0
    /\ UNCHANGED <<input_vars, block_vars, thread_vars, launches>>

Init ==
    /\ kernel \in Kernels
    /\ max_threads \in DeviceLimits
    /\ \E s \in Shapes : m = s[1] /\ n = s[2]
    /\ k \in KValues
    /\ alpha \in Alphas
    /\ beta \in Betas
    /\ \E fill \in Fills :
          /\ d_a = HostMatrix(fill, m * k)
          /\ d_b = HostMatrix(fill, k * n)
    /\ cinit = "zeros"
    /\ d_c = InitialC(cinit, m * n)
    /\ c_old = d_c
    /\ launches = 1
    /\ saved_c = Empty
    /\ saved_kernel = "none"
    /\ todo = GridBlocks(m, n, block_size)
    /\ cur = <<0, 0>>
    /\ phase = "idle"
    /\ tile_idx = 0
    /\ TILE_A = Empty /\ TILE_B = Empty /\ SMEM_A = Empty /\ SMEM_B = Empty
    /\ sum = Empty
    /\ frag_c = Empty
    /\ barriers = 0
    /\ trapped = {}
    /\ writes = [i \in CIndices |-> 0]
    /\ c_reads = 0
    /\ pc = Empty /\ t_tile = Empty /\ arrived = {}
    /\ tag_A = Empty /\ tag_B = Empty
    /\ HostIdle
    /\ CallIdle
    /\ TraceIdle

Next ==
    \/ \E blk \in Scheduled : GemmBlock(blk)
    \/ \E blk \in Scheduled : TiledStart(blk)
    \/ TiledLoad
    \/ TiledAccumulate
    \/ TiledEpilogue
    \/ \E blk \in Scheduled : WmmaStart(blk)
    \/ WmmaLoad
    \/ WmmaCompute
    \/ WmmaEpilogue
    \/ Synchronize
    \/ Relaunch
    \/ FreshRun

Spec == Init /\ [][Next]_vars

-----------------------------------------------------------------------------
(* SpecBlock: block (0, 0) of gemm_kernel_tiled, launched with the host's  *)
(* block shape, with its threads interleaved. The threads 0 .. MaxSolo - 1 *)
(* (by thread::index_1d) are scheduled one by one; the other threads of    *)
(* the block form one more group, which is scheduled like a thread and     *)
(* whose members take each step together.                                  *)

MaxSolo == 2

Groups == 0..MaxSolo
Members(g, bs) == IF g < MaxSolo THEN {g} ELSE Threads(bs) \ (0..(MaxSolo - 1))

\* Where a thread goes after its two loads, and after its accumulate loop:
\* block::sync_threads().
\* (A thread that went from its loads straight into the accumulate loop.)
PcAfterLoadNoBarrier == "acc"
PcAfterLoad == "sync1"
PcAfterAccumulate == "sync2"

\* Scratch elements the accumulate loop of thread t reads in chunk tile.
TiledReadsA(t, bs, tile) ==
    IF IndexY(t, bs) < TILE_M /\ IndexX(t, bs) < TILE_N
    THEN {KeyA(IndexY(t, bs), kk) : kk \in 0..(Min(TILE_K, k - tile * TILE_K) - 1)}
    ELSE {}
TiledReadsB(t, bs, tile) ==
    IF IndexY(t, bs) < TILE_M /\ IndexX(t, bs) < TILE_N
    THEN {KeyB(kk, IndexX(t, bs)) : kk \in 0..(Min(TILE_K, k - tile * TILE_K) - 1)}
    ELSE {}

thread_unchanged == <<launch_vars, c_old, launches, saved_c, saved_kernel, todo, cur,
                      phase, tile_idx, SMEM_A, SMEM_B, frag_c, trapped>>

\* The A load of chunk t_tile[g] by the threads of group g.
BlockLoadA(g) ==
    /\ pc[g] = "load_a"
    /\ LET bs == block_size
           keys == {KeyA(IndexY(t, bs), IndexX(t, bs)) : t \in Members(g, bs) \cap TiledLoadersA(bs)}
       IN  /\ TILE_A' = [e \in keys |-> TiledLoadA(e % TILE_K, e \div TILE_K, cur, t_tile[g])]
                        @@ TILE_A
           /\ tag_A' = [e \in keys |-> t_tile[g]] @@ tag_A
    /\ pc' = [pc EXCEPT ![g] = "load_b"]
    /\ UNCHANGED <<thread_unchanged, TILE_B, tag_B, t_tile, arrived, sum, barriers,
                   d_c, writes, c_reads>>

\* The B load of chunk t_tile[g] by the threads of group g.
BlockLoadB(g) ==
    /\ pc[g] = "load_b"
    /\ LET bs == block_size
           keys == {KeyB(IndexY(t, bs), IndexX(t, bs)) : t \in Members(g, bs) \cap TiledLoadersB(bs)}
       IN  /\ TILE_B' = [e \in keys |-> TiledLoadB(e % TILE_N, e \div TILE_N, cur, t_tile[g])]
                        @@ TILE_B
           /\ tag_B' = [e \in keys |-> t_tile[g]] @@ tag_B
    /\ pc' = [pc EXCEPT ![g] = PcAfterLoad]
    /\ UNCHANGED <<thread_unchanged, TILE_A, tag_A, t_tile, arrived, sum, barriers,
                   d_c, writes, c_reads>>

\* Group g arrives at block::sync_threads() and waits there.
BlockArrive(g) ==
    /\ pc[g] \in {"sync1", "sync2"}
    /\ g \notin arrived
    /\ arrived' = arrived \cup {g}
    /\ UNCHANGED <<thread_unchanged, TILE_A, TILE_B, tag_A, tag_B, pc, t_tile, sum,
                   barriers, d_c, writes, c_reads>>

\* Every thread of the block has arrived: the barrier lets all of them go.
BlockRelease ==
    /\ arrived = Groups
    /\ arrived' = {}
    /\ barriers' = barriers + 1
    /\ pc' = [g \in Groups |->
                IF pc[g] = "sync1" THEN "acc"
                ELSE IF t_tile[g] + 1 < CeilDiv(k, TILE_K) THEN "load_a" ELSE "store"]
    /\ t_tile' = [g \in Groups |-> IF pc[g] = "sync1" THEN t_tile[g] ELSE t_tile[g] + 1]
    /\ UNCHANGED <<thread_unchanged, TILE_A, TILE_B, tag_A, tag_B, sum, d_c, writes,
                   c_reads>>

\* The accumulate loop of chunk t_tile[g] by the threads of group g.
BlockAccumulate(g) ==
    /\ pc[g] = "acc"
    /\ LET bs == block_size
           tile_k_end == Min(TILE_K, k - t_tile[g] * TILE_K)
       IN  sum' = [t \in DOMAIN sum |->
                      IF t \in Members(g, bs)
                      THEN TiledDot(IndexX(t, bs), IndexY(t, bs), 0, tile_k_end, sum[t])
                      ELSE sum[t]]
    /\ pc' = [pc EXCEPT ![g] = PcAfterAccumulate]
    /\ UNCHANGED <<thread_unchanged, TILE_A, TILE_B, tag_A, tag_B, t_tile, arrived,
                   barriers, d_c, writes, c_reads>>

\* The final store of the threads of group g with row < m and col < n.
BlockStore(g) ==
    /\ pc[g] = "store"
    /\ LET bs == block_size
           W == DOMAIN sum \cap Members(g, bs)
           c_idx == [t \in W |->
                       TiledRow(IndexY(t, bs), cur) * n + TiledCol(IndexX(t, bs), cur)]
           St == [t \in W |-> TiledStore(sum[t], d_c[c_idx[t]])]
       IN  /\ d_c' = StoreAll(d_c, W, c_idx, St)
           /\ writes' = CountAll(writes, W, c_idx)
           /\ c_reads' = c_reads + Cardinality({t \in W : St[t].rd = 1})
    /\ pc' = [pc EXCEPT ![g] = "done"]
    /\ UNCHANGED <<thread_unchanged, TILE_A, TILE_B, tag_A, tag_B, t_tile, arrived,
                   sum, barriers>>

InitBlock ==
    /\ kernel = "gemm_kernel_tiled"
    /\ max_threads \in DeviceLimits
    /\ \E s \in {<<Dim(MaxSpan), 1>>, <<2, Dim(MaxSpan)>>} : m = s[1] /\ n = s[2]
    /\ k \in KValues
    /\ alpha = 1
    /\ beta \in Betas
    /\ d_a = HostMatrix("mixed", m * k)
    /\ d_b = HostMatrix("mixed", k * n)
    /\ cinit = "zeros"
    /\ d_c = InitialC(cinit, m * n)
    /\ c_old = d_c
    /\ launches = 1
    /\ saved_c = Empty
    /\ saved_kernel = "none"
    /\ todo = GridBlocks(m, n, block_size) \ {<<0, 0>>}
    /\ cur = <<0, 0>>
    /\ phase = "load"
    /\ tile_idx = 0
    /\ TILE_A = Empty /\ TILE_B = Empty /\ SMEM_A = Empty /\ SMEM_B = Empty
    /\ sum = [t \in TiledStoring(cur, block_size) |-> 0]
    /\ frag_c = Empty
    /\ barriers = 0
    /\ trapped = {}
    /\ writes = [i \in CIndices |-> 0]
    /\ c_reads = 0
    /\ pc = [g \in Groups |-> IF CeilDiv(k, TILE_K) > 0 THEN "load_a" ELSE "store"]
    /\ t_tile = [g \in Groups |-> 0]
    /\ arrived = {}
    /\ tag_A = Empty /\ tag_B = Empty
    /\ HostIdle
    /\ CallIdle
    /\ TraceIdle

NextBlock ==
    \/ \E g \in Groups : BlockLoadA(g)
    \/ \E g \in Groups : BlockLoadB(g)
    \/ \E g \in Groups : BlockArrive(g)
    \/ BlockRelease
    \/ \E g \in Groups : BlockAccumulate(g)
    \/ \E g \in Groups : BlockStore(g)

SpecBlock == InitBlock /\ [][NextBlock]_vars

-----------------------------------------------------------------------------
(* Layouts and tile configurations (utils/src/tensor_defs.rs).             *)

TensorShape(rows, cols) == [rows |-> rows, cols |-> cols]

row_major(rows, cols) ==
    [shape |-> TensorShape(rows, cols), layout |-> [kind |-> "RowMajor"],
     leading_dim |-> cols]

column_major(rows, cols) ==
    [shape |-> TensorShape(rows, cols), layout |-> [kind |-> "ColumnMajor"],
     leading_dim |-> rows]

tiled(rows, cols, tile_m, tile_n) ==
    [shape |-> TensorShape(rows, cols),
     layout |-> [kind |-> "Tiled", tile_m |-> tile_m, tile_n |-> tile_n],
     leading_dim |-> cols]

\* An index that treats every layout as row-major.
index_row_major_only(self, row, col) == row * self.shape.cols + col

\* TensorLayout::index, for row < shape.rows and col < shape.cols.
index(self, row, col) ==
    IF self.layout.kind = "RowMajor" THEN row * self.leading_dim + col
    ELSE IF self.layout.kind = "ColumnMajor" THEN col * self.leading_dim + row
    ELSE LET tile_m == self.layout.tile_m
             tile_n == self.layout.tile_n
             tile_row == row \div tile_m
             tile_col == col \div tile_n
             in_tile_row == row % tile_m
             in_tile_col == col % tile_n
             tiles_per_row == (self.shape.cols + tile_n - 1) \div tile_n
             tile_index == tile_row * tiles_per_row + tile_col
             in_tile_idx == in_tile_row * tile_n + in_tile_col
         IN  tile_index * (tile_m * tile_n) + in_tile_idx

row_stride(self) ==
    IF self.layout.kind = "RowMajor" THEN self.leading_dim
    ELSE IF self.layout.kind = "ColumnMajor" THEN 1
    ELSE self.layout.tile_n

col_stride(self) ==
    IF self.layout.kind = "RowMajor" THEN 1
    ELSE IF self.layout.kind = "ColumnMajor" THEN self.leading_dim
    ELSE self.layout.tile_m

\* is_gemm_compatible with one of its three comparisons left out.
is_gemm_compatible_two(a, b, c) ==
    a.shape.cols = b.shape.rows /\ a.shape.rows = c.shape.rows

is_gemm_compatible(a, b, c) ==
    /\ a.shape.cols = b.shape.rows
    /\ a.shape.rows = c.shape.rows
    /\ b.shape.cols = c.shape.cols

TileConfig(tile_m, tile_n, tile_k, warp_m, warp_n, warp_k) ==
    [tile_m |-> tile_m, tile_n |-> tile_n, tile_k |-> tile_k,
     warp_m |-> warp_m, warp_n |-> warp_n, warp_k |-> warp_k]

ampere_default == TileConfig(128, 128, 16, 32, 32, 16)
hopper_default == TileConfig(256, 128, 64, 64, 64, 16)

\* warps_per_block with the divisions rounded down.
warps_per_block_floor(self) ==
    (self.tile_m \div self.warp_m) * (self.tile_n \div self.warp_n)

warps_per_block(self) ==
    LET warps_m == (self.tile_m + self.warp_m - 1) \div self.warp_m
        warps_n == (self.tile_n + self.warp_n - 1) \div self.warp_n
    IN  warps_m * warps_n

threads_per_block(self) == warps_per_block(self) * 32

-----------------------------------------------------------------------------
(* verify_gemm (src/lib.rs). An f32 is a record: a finite value v, which   *)
(* is a small integer here, or NaN. Arithmetic with a NaN gives NaN and    *)
(* every ordered comparison with a NaN is false.                           *)

F(v) == [nan |-> FALSE, v |-> v]
NaN == [nan |-> TRUE, v |-> 0]
FAdd(x, y) == IF x.nan \/ y.nan THEN NaN ELSE F(x.v + y.v)
FSub(x, y) == IF x.nan \/ y.nan THEN NaN ELSE F(x.v - y.v)
FMul(x, y) == IF x.nan \/ y.nan THEN NaN ELSE F(x.v * y.v)
FAbs(x) == IF x.nan THEN NaN ELSE F(IF x.v < 0 THEN 0 - x.v ELSE x.v)
FGt(x, y) == ~x.nan /\ ~y.nan /\ x.v > y.v
FLe(x, y) == ~x.nan /\ ~y.nan /\ x.v <= y.v

\* The loop over p: sum += a[i * k + p] * b[p * n + j].
RECURSIVE VerifySum(_, _, _, _, _, _, _, _)
VerifySum(nn, kk, a, b, i, j, p, acc) ==
    IF p >= kk THEN acc
    ELSE VerifySum(nn, kk, a, b, i, j, p + 1,
                   FAdd(acc, FMul(a[i * kk + p], b[p * nn + j])))

\* c_ref as the first pair of loops leaves it.
VerifyRef(mm, nn, kk, al, a, b, be, c) ==
    [x \in 0..(mm * nn - 1) |->
        FAdd(FMul(al, VerifySum(nn, kk, a, b, x \div nn, x % nn, 0, F(0))),
             FMul(be, c[x]))]

\* The comparison of verify_gemm that reports a mismatch.
VerifyMismatch(diff, tolerance) == FGt(diff, tolerance)

\* The second loop from index i on: the return value, and what is printed
\* on a mismatch.
RECURSIVE VerifyScan(_, _, _, _, _)
VerifyScan(len, c, c_ref, tolerance, i) ==
    IF i >= len THEN [ok |-> TRUE]
    ELSE IF VerifyMismatch(FAbs(FSub(c[i], c_ref[i])), tolerance)
         THEN [ok |-> FALSE, index |-> i, gpu |-> c[i], cpu |-> c_ref[i]]
         ELSE VerifyScan(len, c, c_ref, tolerance, i + 1)

verify_gemm(mm, nn, kk, al, a, b, be, c, tolerance) ==
    VerifyScan(mm * nn, c, VerifyRef(mm, nn, kk, al, a, b, be, c), tolerance, 0)

-----------------------------------------------------------------------------
(* SpecPure: one call of one host-side function. Init draws the function   *)
(* and its arguments, the action of that function applies it.              *)

MaxExtent == 3
MaxTile == 2
MaxCompatDim == 2
MaxLimitLog == 11
MaxVerifyLen == 2

\* No kernel is loaded and no launch is in progress.
DeviceIdle ==
    /\ kernel = "gemm_kernel" /\ cinit = "zeros"
    /\ d_a = Empty /\ d_b = Empty /\ d_c = Empty /\ c_old = Empty
    /\ saved_c = Empty /\ saved_kernel = "none"
    /\ todo = {} /\ cur = <<0, 0>> /\ phase = "idle" /\ tile_idx = 0
    /\ TILE_A = Empty /\ TILE_B = Empty /\ SMEM_A = Empty /\ SMEM_B = Empty
    /\ sum = Empty /\ frag_c = Empty /\ barriers = 0 /\ trapped = {}
    /\ writes = Empty /\ c_reads = 0
    /\ pc = Empty /\ t_tile = Empty /\ arrived = {}
    /\ tag_A = Empty /\ tag_B = Empty

Extents == 1..MaxExtent

Layouts ==
    {row_major(r, c) : r \in Extents, c \in Extents}
    \cup {column_major(r, c) : r \in Extents, c \in Extents}
    \cup UNION {{tiled(r, c, tm, tn) : r \in Extents, c \in Extents} :
                    tm \in 1..MaxTile, tn \in 1..MaxTile}

IndexCalls ==
    UNION {{[fn |-> "index", self |-> l, row |-> r, col |-> c] :
                r \in 0..(l.shape.rows - 1), c \in 0..(l.shape.cols - 1)} :
           l \in Layouts}

StrideCalls ==
    {[fn |-> f, self |-> l] : f \in {"row_stride", "col_stride"}, l \in Layouts}

CompatShapes ==
    {TensorShape(r, c) : r \in 1..MaxCompatDim, c \in 1..MaxCompatDim}
    \cup {TensorShape(10, 20), TensorShape(20, 30), TensorShape(21, 30),
          TensorShape(10, 30)}

CompatCalls ==
    {[fn |-> "is_gemm_compatible", a |-> row_major(x.rows, x.cols),
      b |-> row_major(y.rows, y.cols), c |-> row_major(z.rows, z.cols)] :
        x \in CompatShapes, y \in CompatShapes, z \in CompatShapes}

TileConfigs ==
    {ampere_default, hopper_default}
    \cup UNION {{TileConfig(tm, tn, 1, wm, wn, 1) : tm \in Extents, tn \in Extents} :
                    wm \in Extents, wn \in Extents}

TileCalls ==
    {[fn |-> f, self |-> t] :
        f \in {"warps_per_block", "threads_per_block"}, t \in TileConfigs}

\* MAX_THREADS_PER_BLOCK values a device may report.
ReportedLimits == {2 ^ j : j \in 0..MaxLimitLog}

BlockSizeCalls ==
    {[fn |-> "calculate_block_size", max_threads_per_block |-> x] :
        x \in ReportedLimits}

VerifyResults == {F(1), F(2), F(3), NaN}

VerifyCalls ==
    UNION {UNION {{[fn |-> "verify_gemm", m |-> 1, n |-> len, k |-> kk,
                    alpha |-> F(1), beta |-> F(be), tolerance |-> F(tol),
                    a |-> [x \in 0..(kk - 1) |-> F(1)],
                    b |-> [x \in 0..(kk * len - 1) |-> F(1)],
                    c |-> c, c_before |-> c0] :
                      c \in [0..(len - 1) -> VerifyResults],
                      c0 \in [0..(len - 1) -> {F(0), F(1)}]} :
                  kk \in 1..2, be \in 0..1, tol \in 0..1} :
           len \in 1..MaxVerifyLen}

Returned == DOMAIN ret # {}

Call(fn) == arg.fn = fn /\ ~Returned /\ UNCHANGED <<arg, host_vars>>

pure_unchanged ==
    UNCHANGED <<max_threads, m, n, k, alpha, beta, d_a, d_b, kernel, cinit,
                block_vars, thread_vars, d_c, c_old, launches, saved_c,
                saved_kernel, todo, phase, writes, c_reads, trace_vars>>

CallIndex ==
    /\ Call("index")
    /\ ret' = [value |-> index(arg.self, arg.row, arg.col)]
    /\ pure_unchanged

CallRowStride ==
    /\ Call("row_stride")
    /\ ret' = [value |-> row_stride(arg.self)]
    /\ pure_unchanged

CallColStride ==
    /\ Call("col_stride")
    /\ ret' = [value |-> col_stride(arg.self)]
    /\ pure_unchanged

CallIsGemmCompatible ==
    /\ Call("is_gemm_compatible")
    /\ ret' = [value |-> is_gemm_compatible(arg.a, arg.b, arg.c)]
    /\ pure_unchanged

CallWarpsPerBlock ==
    /\ Call("warps_per_block")
    /\ ret' = [value |-> warps_per_block(arg.self)]
    /\ pure_unchanged

CallThreadsPerBlock ==
    /\ Call("threads_per_block")
    /\ ret' = [value |-> threads_per_block(arg.self)]
    /\ pure_unchanged

CallCalculateBlockSize ==
    /\ Call("calculate_block_size")
    /\ ret' = [value |-> calculate_block_size(arg.max_threads_per_block)]
    /\ pure_unchanged

CallVerifyGemm ==
    /\ Call("verify_gemm")
    /\ ret' = verify_gemm(arg.m, arg.n, arg.k, arg.alpha, arg.a, arg.b,
                          arg.beta, arg.c, arg.tolerance)
    /\ pure_unchanged

InitPure ==
    /\ arg \in IndexCalls \cup StrideCalls \cup CompatCalls \cup TileCalls
                 \cup BlockSizeCalls \cup VerifyCalls
    /\ ret = Empty
    /\ max_threads = 1024 /\ m = 1 /\ n = 1 /\ k = 1 /\ alpha = 1 /\ beta = 0
    /\ launches = 0
    /\ DeviceIdle
    /\ HostIdle
    /\ TraceIdle

NextPure ==
    \/ CallIndex
    \/ CallRowStride
    \/ CallColStride
    \/ CallIsGemmCompatible
    \/ CallWarpsPerBlock
    \/ CallThreadsPerBlock
    \/ CallCalculateBlockSize
    \/ CallVerifyGemm

SpecPure == InitPure /\ [][NextPure]_vars

-----------------------------------------------------------------------------
(* SpecHost: main and GemmKernel::launch, one step per driver call. Every  *)
(* fallible call either succeeds or fails; `?` hands a failure to the      *)
(* caller. The kernel's effect on C is not followed here.                  *)

num_runs == 5
MaxHostDim == 2

\* How the buffers handed to launch relate to m, n, k.
Requests == {"matching", "a_cols", "b_rows", "c_rows", "c_short"}

\* The layouts and lengths of the buffers behind the three device pointers.
Operands(req, mm, nn, kk) ==
    [a   |-> row_major(mm, IF req = "a_cols" THEN kk + 1 ELSE kk),
     b   |-> row_major(IF req = "b_rows" THEN kk + 1 ELSE kk, nn),
     c   |-> row_major(IF req = "c_rows" THEN mm + 1 ELSE mm, nn),
     len |-> [a |-> mm * (IF req = "a_cols" THEN kk + 1 ELSE kk),
              b |-> (IF req = "b_rows" THEN kk + 1 ELSE kk) * nn,
              c |-> IF req = "c_rows" THEN (mm + 1) * nn
                    ELSE IF req = "c_short" THEN mm * nn - 1 ELSE mm * nn]]

\* `?` on an Err: the function returns the error, and so does main.
\* A failure that is dropped: execution goes on.
Swallow(op, next) == [hpc |-> next, outcome |-> "running"]

Propagate(op, next) == [hpc |-> "exit", outcome |-> "err"]

\* A call that returns Result: Ok moves on, Err(op) is handled by `?`.
Try(at, ops, next) ==
    /\ hpc = at
    /\ \/ hpc' = next /\ UNCHANGED <<outcome, failed_op>>
       \/ \E op \in ops :
             /\ failed_op' = op
             /\ hpc' = Propagate(op, next).hpc
             /\ outcome' = Propagate(op, next).outcome

host_unchanged ==
    UNCHANGED <<max_threads, m, n, k, alpha, beta, d_a, d_b, kernel, cinit,
                block_vars, thread_vars, d_c, c_old, saved_c, saved_kernel,
                todo, phase, writes, c_reads, operands, call_vars, trace_vars>>

\* Where launch goes after the kernel is enqueued.
\* A launch that returns without waiting for the stream.
PcAfterEnqueueNoWait == "launch_return"

PcAfterEnqueue == "synchronize"

\* CudaContext::new
CreateContext ==
    /\ Try("new_context", {"create_context"}, "calculate_block_size")
    /\ UNCHANGED <<pending, started, launches>>
    /\ host_unchanged

\* calculate_block_size: device.get_attribute(MaxThreadsPerBlock)?
GetBlockSize ==
    /\ Try("calculate_block_size", {"get_attribute"}, "from_slice_a")
    /\ UNCHANGED <<pending, started, launches>>
    /\ host_unchanged

\* DeviceBuffer::from_slice for d_a, d_b, d_c: alloc, then copy_from_host.
FromSlice(x, next) ==
    /\ Try(x, {"alloc", "copy_from_host"}, next)
    /\ UNCHANGED <<pending, started, launches>>
    /\ host_unchanged

\* GemmKernel::load: read the PTX, load the module, create the stream.
LoadKernel ==
    /\ Try("load", {"read_ptx", "load_module", "create_stream"}, "get_function")
    /\ UNCHANGED <<pending, started, launches>>
    /\ host_unchanged

\* Instant::now() at the top of a benchmark iteration.
TimerStart ==
    /\ hpc = "timer"
    /\ hpc' = "get_function"
    /\ UNCHANGED <<outcome, failed_op, pending, started, launches>>
    /\ host_unchanged

\* launch: grid computation and module.get_function("gemm_kernel")?
GetFunction ==
    /\ Try("get_function", {"get_function"}, "launch")
    /\ UNCHANGED <<pending, started, launches>>
    /\ host_unchanged

\* launch: launch!(kernel<<<grid, block, 0, stream>>>(...))?
LaunchKernel ==
    /\ hpc = "launch"
    /\ \/ /\ hpc' = PcAfterEnqueue
          /\ pending' = pending + 1
          /\ started' = started + 1
          /\ UNCHANGED <<outcome, failed_op>>
       \/ /\ failed_op' = "launch"
          /\ hpc' = Propagate("launch", PcAfterEnqueue).hpc
          /\ outcome' = Propagate("launch", PcAfterEnqueue).outcome
          /\ UNCHANGED <<pending, started>>
    /\ UNCHANGED launches
    /\ host_unchanged

\* launch: stream.synchronize()?  Ok means that the stream has drained.
StreamSynchronize ==
    /\ hpc = "synchronize"
    /\ \/ /\ hpc' = "launch_return"
          /\ pending' = 0
          /\ UNCHANGED <<outcome, failed_op>>
       \/ /\ failed_op' = "synchronize"
          /\ hpc' = Propagate("synchronize", "launch_return").hpc
          /\ outcome' = Propagate("synchronize", "launch_return").outcome
          /\ UNCHANGED pending
    /\ UNCHANGED <<started, launches>>
    /\ host_unchanged

\* launch returns Ok(()): after the warm-up and each of the first
\* num_runs - 1 iterations another iteration follows, then the read-back.
LaunchReturn ==
    /\ hpc = "launch_return"
    /\ launches' = launches + 1
    /\ hpc' = IF launches + 1 < 1 + num_runs THEN "timer" ELSE "copy_to_host"
    /\ UNCHANGED <<outcome, failed_op, pending, started>>
    /\ host_unchanged

\* d_c.copy_to_host(&mut c_result)?
CopyToHost ==
    /\ Try("copy_to_host", {"copy_to_host"}, "verify")
    /\ UNCHANGED <<pending, started, launches>>
    /\ host_unchanged

\* verify_gemm and the rest of main: either answer is only printed.
VerifyAndExit ==
    /\ hpc = "verify"
    /\ hpc' = "exit"
    /\ outcome' = "ok"
    /\ UNCHANGED <<failed_op, pending, started, launches>>
    /\ host_unchanged

\* main builds buffers that match m, n and k; launch is public and takes any
\* three buffers, so the request is drawn from Requests.
InitHost ==
    /\ max_threads \in DeviceLimits
    /\ m \in 1..MaxHostDim /\ n \in 1..MaxHostDim /\ k \in 1..MaxHostDim
    /\ alpha = 1 /\ beta = 0
    /\ \E req \in Requests : operands = Operands(req, m, n, k)
    /\ hpc = "new_context" /\ outcome = "running" /\ failed_op = "none"
    /\ pending = 0 /\ started = 0
    /\ launches = 0
    /\ DeviceIdle
    /\ CallIdle
    /\ TraceIdle

NextHost ==
    \/ CreateContext
    \/ GetBlockSize
    \/ FromSlice("from_slice_a", "from_slice_b")
    \/ FromSlice("from_slice_b", "from_slice_c")
    \/ FromSlice("from_slice_c", "load")
    \/ LoadKernel
    \/ TimerStart
    \/ GetFunction
    \/ LaunchKernel
    \/ StreamSynchronize
    \/ LaunchReturn
    \/ CopyToHost
    \/ VerifyAndExit

SpecHost == InitHost /\ [][NextHost]_vars

-----------------------------------------------------------------------------
(* SpecThread: one thread of one block of a launch made with the host's    *)
(* geometry, followed from barrier to barrier. What is recorded is where   *)
(* the thread reads and writes, not the values: global_acc holds its       *)
(* accesses to A, B and C, scratch_wr the scratch elements it stores in    *)
(* the load of the current chunk, scratch_rd the scratch elements it       *)
(* indexes after the barrier of the current chunk.                         *)

NoAccess == [a |-> {}, b |-> {}, c |-> {}]

\* The guard of the A load of gemm_kernel_tiled without its column test.
TiledLoadGuardRowOnly(global_row, global_col_k) == global_row < m

\* if global_row < m && global_col_k < k
TiledLoadGuardA(global_row, global_col_k) == global_row < m /\ global_col_k < k

\* Cooperative load of gemm_kernel_wmma with idx = tid + i.
WmmaThreadIdxOverlap(t, ept) == {t + i : i \in 0..(ept - 1)}

\* Cooperative load of gemm_kernel_wmma: the indices
\* idx = tid * elements_per_thread + i of thread t.
WmmaThreadIdx(t, ept) == {t * ept + i : i \in 0..(ept - 1)}

thread_frame ==
    <<max_threads, m, n, k, alpha, beta, d_a, d_b, host_vars, call_vars, tid,
      kernel, cinit, cur, TILE_A, TILE_B, SMEM_A, SMEM_B, sum, frag_c, barriers,
      thread_vars, d_c, c_old, launches, saved_c, saved_kernel, todo, writes,
      c_reads>>

\* gemm_kernel, from entry to return.
ThreadGemm ==
    /\ kernel = "gemm_kernel"
    /\ phase = "load"
    /\ LET row == GemmRow(tid, cur, block_size)
           col == GemmCol(tid, cur, block_size)
       IN  global_acc' =
             IF row >= m \/ col >= n THEN NoAccess
             ELSE [a |-> {<<0, row, p, row * k + p>> : p \in 0..(k - 1)},
                   b |-> {<<0, p, col, p * n + col>> : p \in 0..(k - 1)},
                   c |-> {<<0, row, col, row * n + col>>}]
    /\ phase' = "done"
    /\ UNCHANGED <<thread_frame, tile_idx, scratch_wr, scratch_rd, trapped>>

\* gemm_kernel_tiled: the two loads of chunk tile_idx, up to the barrier.
ThreadTiledLoad ==
    /\ kernel = "gemm_kernel_tiled"
    /\ phase = "load"
    /\ LET tx == IndexX(tid, block_size)
           ty == IndexY(tid, block_size)
           tile_start_k == tile_idx * TILE_K
           loads_a == ty < TILE_M /\ tx < TILE_K
           loads_b == ty < TILE_K /\ tx < TILE_N
           a_row == cur[2] * TILE_M + ty
           a_col == tile_start_k + tx
           b_row == tile_start_k + ty
           b_col == cur[1] * TILE_N + tx
       IN  /\ scratch_wr' = [a |-> IF loads_a THEN {<<0, ty, tx>>} ELSE {},
                             b |-> IF loads_b THEN {<<0, ty, tx>>} ELSE {}]
           /\ global_acc' =
                [global_acc EXCEPT
                   !.a = @ \cup (IF loads_a /\ TiledLoadGuardA(a_row, a_col)
                                 THEN {<<0, a_row, a_col, a_row * k + a_col>>}
                                 ELSE {}),
                   !.b = @ \cup (IF loads_b /\ b_row < k /\ b_col < n
                                 THEN {<<0, b_row, b_col, b_row * n + b_col>>}
                                 ELSE {})]
    /\ phase' = "acc"
    /\ UNCHANGED <<thread_frame, tile_idx, scratch_rd, trapped>>

\* gemm_kernel_tiled: the accumulate loop of chunk tile_idx and the barrier
\* after it.
ThreadTiledAccumulate ==
    /\ kernel = "gemm_kernel_tiled"
    /\ phase = "acc"
    /\ LET tx == IndexX(tid, block_size)
           ty == IndexY(tid, block_size)
           tile_k_end == Min(TILE_K, k - tile_idx * TILE_K)
           active == ty < TILE_M /\ tx < TILE_N
       IN  scratch_rd' =
             [a |-> IF active THEN {<<kk, ty, kk>> : kk \in 0..(tile_k_end - 1)} ELSE {},
              b |-> IF active THEN {<<kk, kk, tx>> : kk \in 0..(tile_k_end - 1)} ELSE {}]
    /\ tile_idx' = tile_idx + 1
    /\ phase' = IF tile_idx + 1 < CeilDiv(k, TILE_K) THEN "load" ELSE "epilogue"
    /\ UNCHANGED <<thread_frame, global_acc, scratch_wr, trapped>>

\* gemm_kernel_tiled: the final store.
ThreadTiledStore ==
    /\ kernel = "gemm_kernel_tiled"
    /\ phase = "epilogue"
    /\ LET row == TiledRow(IndexY(tid, block_size), cur)
           col == TiledCol(IndexX(tid, block_size), cur)
       IN  global_acc' =
             [global_acc EXCEPT
                !.c = IF row < m /\ col < n THEN {<<0, row, col, row * n + col>>} ELSE {}]
    /\ phase' = "done"
    /\ UNCHANGED <<thread_frame, tile_idx, scratch_wr, scratch_rd, trapped>>

\* gemm_kernel_wmma: the cooperative load of chunk tile_idx, up to the barrier.
ThreadWmmaLoad ==
    /\ kernel = "gemm_kernel_wmma"
    /\ phase = "load"
    /\ LET bs == block_size
           k_offset == tile_idx * WMMA_K
           idx_a == WmmaThreadIdx(tid, ElementsPerThreadA(bs))
           idx_b == WmmaThreadIdx(tid, ElementsPerThreadB(bs))
           wr_a == {<<idx - tid * ElementsPerThreadA(bs), idx \div WMMA_K, idx % WMMA_K>> :
                        idx \in idx_a}
           wr_b == {<<idx - tid * ElementsPerThreadB(bs), idx \div (WMMA_N * 4),
                      idx % (WMMA_N * 4)>> : idx \in idx_b}
           rd_a == {<<w[1], cur[2] * WMMA_M * 4 + w[2], k_offset + w[3]>> : w \in wr_a}
           rd_b == {<<w[1], k_offset + w[2], cur[1] * WMMA_N * 4 + w[3]>> : w \in wr_b}
       IN  /\ scratch_wr' = [a |-> wr_a, b |-> wr_b]
           /\ global_acc' =
                [global_acc EXCEPT
                   !.a = @ \cup {<<g[1], g[2], g[3], g[2] * k + g[3]>> :
                                    g \in {x \in rd_a : x[2] < m /\ x[3] < k}},
                   !.b = @ \cup {<<g[1], g[2], g[3], g[2] * n + g[3]>> :
                                    g \in {x \in rd_b : x[2] < k /\ x[3] < n}}]
    /\ phase' = "acc"
    /\ UNCHANGED <<thread_frame, tile_idx, scratch_rd, trapped>>

\* gemm_kernel_wmma: the fragment loads of chunk tile_idx, wmma_mma_sync and
\* the barrier after it. An index outside SMEM_A or SMEM_B fails the bounds
\* check of the indexing: the thread traps there.
ThreadWmmaFragments ==
    /\ kernel = "gemm_kernel_wmma"
    /\ phase = "acc"
    /\ LET w == WarpId(tid)
           lane == LaneId(tid)
           rd_a == {<<i, WarpRowLocal(w) + FragRowA(lane, i), FragColA(lane, i)>> :
                       i \in {j \in FragSlots : FragRowA(lane, j) < WMMA_M
                                                /\ FragColA(lane, j) < WMMA_K}}
           rd_b == {<<i, FragRowB(lane, i), WarpColLocal(w) + FragColB(lane, i)>> :
                       i \in {j \in FragSlots : FragRowB(lane, j) < WMMA_K
                                                /\ FragColB(lane, j) < WMMA_N}}
           fails == \E i \in FragSlots : FragIndexFails(w, lane, i)
           \* The A loop runs first and stops at the first index that fails;
           \* no B index can fail.
           bad_a == {x \in rd_a : x[2] >= WMMA_M * 4 \/ x[3] >= WMMA_K}
           done_a == {x \in rd_a : \A y \in bad_a : x[1] <= y[1]}
       IN  /\ scratch_rd' = IF fails THEN [a |-> done_a, b |-> {}]
                             ELSE [a |-> rd_a, b |-> rd_b]
           /\ IF fails
              THEN /\ trapped' = {tid}
                   /\ phase' = "aborted"
                   /\ UNCHANGED tile_idx
              ELSE /\ tile_idx' = tile_idx + 1
                   /\ phase' = IF tile_idx + 1 < CeilDiv(k, WMMA_K) THEN "load"
                               ELSE "epilogue"
                   /\ UNCHANGED trapped
    /\ UNCHANGED <<thread_frame, global_acc, scratch_wr>>

\* gemm_kernel_wmma: the write-back of the accumulator fragment.
ThreadWmmaStore ==
    /\ kernel = "gemm_kernel_wmma"
    /\ phase = "epilogue"
    /\ LET warp_row == WarpRow(WarpId(tid), cur)
           warp_col == WarpCol(WarpId(tid), cur)
           lane == LaneId(tid)
           slots == {<<i, warp_row + FragRowA(lane, i), warp_col + FragColA(lane, i)>> :
                        i \in FragSlots}
       IN  global_acc' =
             [global_acc EXCEPT
                !.c = IF warp_row < m /\ warp_col < n
                      THEN {<<g[1], g[2], g[3], g[2] * n + g[3]>> :
                               g \in {x \in slots : x[2] < m /\ x[3] < n}}
                      ELSE {}]
    /\ phase' = "done"
    /\ UNCHANGED <<thread_frame, tile_idx, scratch_wr, scratch_rd, trapped>>

InitThread ==
    /\ kernel \in Kernels
    /\ max_threads \in DeviceLimits
    /\ \E s \in Shapes : m = s[1] /\ n = s[2]
    /\ k \in KValues
    /\ alpha = 1 /\ beta = 1
    /\ cur \in GridBlocks(m, n, block_size)
    /\ tid \in Threads(block_size)
    /\ phase = "load"
    /\ tile_idx = 0
    /\ global_acc = NoAccess
    /\ scratch_wr = [a |-> {}, b |-> {}]
    /\ scratch_rd = [a |-> {}, b |-> {}]
    /\ cinit = "zeros"
    /\ d_a = Empty /\ d_b = Empty /\ d_c = Empty /\ c_old = Empty
    /\ launches = 1
    /\ saved_c = Empty /\ saved_kernel = "none"
    /\ todo = {}
    /\ TILE_A = Empty /\ TILE_B = Empty /\ SMEM_A = Empty /\ SMEM_B = Empty
    /\ sum = Empty /\ frag_c = Empty /\ barriers = 0 /\ trapped = {}
    /\ writes = Empty /\ c_reads = 0
    /\ pc = Empty /\ t_tile = Empty /\ arrived = {}
    /\ tag_A = Empty /\ tag_B = Empty
    /\ HostIdle
    /\ CallIdle

NextThread ==
    \/ ThreadGemm
    \/ ThreadTiledLoad
    \/ ThreadTiledAccumulate
    \/ ThreadTiledStore
    \/ ThreadWmmaLoad
    \/ ThreadWmmaFragments
    \/ ThreadWmmaStore

SpecThread == InitThread /\ [][NextThread]_vars

-----------------------------------------------------------------------------
(* Properties.                                                             *)

Ones(len) == [i \in 0..(len - 1) |-> 1]

\* sum over p < k of A[row, p] * B[p, col], from p on.
RECURSIVE DotRef(_, _, _)
DotRef(row, col, p) ==
    IF p >= k THEN 0
    ELSE d_a[row * k + p] * d_b[p * n + col] + DotRef(row, col, p + 1)

\* C1: gemm_kernel_tiled with alpha = 1, beta = 0 and A, B filled with ones,
\* over the host's grid, leaves C[i, j] = k for every i < m, j < n.
C1_TiledOnesGiveK ==
    (/\ kernel = "gemm_kernel_tiled" /\ phase = "done"
     /\ alpha = 1 /\ beta = 0
     /\ d_a = Ones(m * k) /\ d_b = Ones(k * n))
    => \A i \in CIndices : d_c[i] = k

\* C2: with the host's block and grid, every output element is written by
\* exactly one thread of gemm_kernel and of gemm_kernel_tiled.
C2_OneWriterPerElement ==
    (kernel \in {"gemm_kernel", "gemm_kernel_tiled"} /\ phase = "done")
    => \A i \in CIndices : writes[i] = 1

\* C3: in gemm_kernel_wmma every output element is written back by exactly
\* one (block, warp, lane, slot).
C3_OneSlotPerElement ==
    (kernel = "gemm_kernel_wmma" /\ phase = "done")
    => \A i \in CIndices : writes[i] = 1

\* C4: when beta = 0 no thread of any of the three kernels loads from C.
C4_NoReadOfC == beta = 0 => c_reads = 0

\* The final stores of a launch with beta = 0 have been made.
C4_Witness ==
    /\ beta = 0
    /\ phase = "done"
    /\ \E i \in CIndices : writes[i] >= 1

\* C5: with beta = 0 a run that starts from arbitrary values in C ends with
\* the same C as the run that started from zeros, and a repeated launch on
\* the same buffers ends with the same C as the launch before it.
C5_IndependentOfInitialC ==
    (beta = 0 /\ phase = "done" /\ kernel \in {"gemm_kernel", "gemm_kernel_tiled"})
    => /\ saved_kernel = kernel => d_c = saved_c
       /\ launches >= 2 => d_c = c_old

\* C6: with alpha = 1 and beta = 1, after one launch every element is its old
\* value plus the dot product, and was stored once.
C6_BlendsOldCOnce ==
    (/\ alpha = 1 /\ beta = 1 /\ phase = "done"
     /\ kernel \in {"gemm_kernel", "gemm_kernel_tiled"})
    => \A i \in CIndices :
          /\ d_c[i] = c_old[i] + DotRef(i \div n, i % n, 0)
          /\ writes[i] = 1

\* C7: a thread in the accumulate phase of chunk t finds, in every scratch
\* element it reads, the completed load of chunk t: not an earlier state of
\* the element, and not the load of chunk t + 1.
C7_ScratchOrdered ==
    \A g \in DOMAIN pc :
        pc[g] = "acc" =>
            \A t \in Members(g, block_size) :
                /\ \A e \in TiledReadsA(t, block_size, t_tile[g]) :
                      e \in DOMAIN tag_A /\ tag_A[e] = t_tile[g]
                /\ \A e \in TiledReadsB(t, block_size, t_tile[g]) :
                      e \in DOMAIN tag_B /\ tag_B[e] = t_tile[g]

\* A thread is still to accumulate the second chunk, from elements that other
\* threads loaded, while another thread already waits at the barrier after it.
C7_Witness ==
    /\ DOMAIN pc = Groups
    /\ pc[0] = "acc" /\ t_tile[0] = 1
    /\ pc[MaxSolo] = "sync2" /\ MaxSolo \in arrived
    /\ barriers = 3

\* C8: every thread of a block of gemm_kernel_tiled and gemm_kernel_wmma
\* passes exactly 2 * ceil(k / 16) barriers and runs to its end.
C8_AllBarriersReached ==
    kernel \in {"gemm_kernel_tiled", "gemm_kernel_wmma"}
    => /\ phase # "aborted"
       /\ trapped = {}
       /\ phase = "epilogue" => barriers = 2 * CeilDiv(k, TILE_K)

\* C9: after the post-load barrier of chunk t, TILE_A[r][c] is
\* A[by*tile_m + r, t*tile_k + c] where that is inside the matrix and TILE_B[r][c]
\* is B[t*tile_k + r, bx*tile_n + c] where that is inside the matrix; an
\* element loaded for a coordinate outside holds 0.
C9_ScratchHoldsChunk ==
    (kernel = "gemm_kernel_tiled" /\ phase = "acc")
    => /\ \A r \in 0..(TILE_M - 1), c \in 0..(TILE_K - 1) :
             IF cur[2] * TILE_M + r < m /\ tile_idx * TILE_K + c < k
             THEN /\ KeyA(r, c) \in DOMAIN TILE_A
                  /\ TILE_A[KeyA(r, c)]
                       = d_a[(cur[2] * TILE_M + r) * k + tile_idx * TILE_K + c]
             ELSE KeyA(r, c) \in DOMAIN TILE_A => TILE_A[KeyA(r, c)] = 0
       /\ \A r \in 0..(TILE_K - 1), c \in 0..(TILE_N - 1) :
             IF tile_idx * TILE_K + r < k /\ cur[1] * TILE_N + c < n
             THEN /\ KeyB(r, c) \in DOMAIN TILE_B
                  /\ TILE_B[KeyB(r, c)]
                       = d_b[(tile_idx * TILE_K + r) * n + cur[1] * TILE_N + c]
             ELSE KeyB(r, c) \in DOMAIN TILE_B => TILE_B[KeyB(r, c)] = 0

\* C10: on the same inputs gemm_kernel_wmma ends with the same C as
\* gemm_kernel_tiled, element by element.
C10_WmmaAgreesWithTiled ==
    (/\ kernel = "gemm_kernel_wmma" /\ saved_kernel = "gemm_kernel_tiled"
     /\ phase = "done")
    => \A i \in CIndices : d_c[i] = saved_c[i]


-----------------------------------------------------------------------------
(* Host-side functions (SpecPure).                                         *)

VerifyCalled == arg.fn = "verify_gemm" /\ Returned

\* |x - y| <= tolerance
Within(x, y, tolerance) == FLe(FAbs(FSub(x, y)), tolerance)

\* C13: verification accepts exactly when every element of the result is
\* within the tolerance of alpha * sum(A * B) + beta * C_old, where C_old is
\* C as it was before the kernel ran; in particular, for beta # 0 a result
\* equal to alpha * A * B + beta * C_old is accepted. (The equivalence is
\* stated for results without NaN.)
C13_VerifyAgainstOldC ==
    VerifyCalled =>
        LET len == arg.m * arg.n
            expected == VerifyRef(arg.m, arg.n, arg.k, arg.alpha, arg.a, arg.b,
                                  arg.beta, arg.c_before)
            finite == \A x \in 0..(len - 1) : ~arg.c[x].nan
        IN  /\ (arg.beta # F(0) /\ arg.c = expected) => ret.ok
            /\ finite =>
                 (ret.ok <=> \A x \in 0..(len - 1) :
                                 Within(arg.c[x], expected[x], arg.tolerance))

\* C14: verify_gemm returns true exactly when |c[i] - c_ref[i]| <= tolerance
\* for every i < m * n (a difference equal to the tolerance is accepted); when
\* it returns false it reports the smallest offending i with the two values.
C14_VerifyExactlyWithinTolerance ==
    VerifyCalled =>
        LET len == arg.m * arg.n
            c_ref == VerifyRef(arg.m, arg.n, arg.k, arg.alpha, arg.a, arg.b,
                               arg.beta, arg.c)
            ok(x) == Within(arg.c[x], c_ref[x], arg.tolerance)
        IN  /\ ret.ok <=> \A x \in 0..(len - 1) : ok(x)
            /\ ~ret.ok =>
                 /\ ~ok(ret.index)
                 /\ \A x \in 0..(ret.index - 1) : ok(x)
                 /\ ret.gpu = arg.c[ret.index]
                 /\ ret.cpu = c_ref[ret.index]

\* C16: is_gemm_compatible(a, b, c) is true exactly when a.cols = b.rows,
\* a.rows = c.rows and b.cols = c.cols: 10x20, 20x30, 10x30 are compatible,
\* 10x20 with 21x30 are not.
C16_CompatibleIffShapesAgree ==
    (arg.fn = "is_gemm_compatible" /\ Returned) =>
        /\ ret.value <=> /\ arg.a.shape.cols = arg.b.shape.rows
                         /\ arg.a.shape.rows = arg.c.shape.rows
                         /\ arg.b.shape.cols = arg.c.shape.cols
        /\ (/\ arg.a.shape = TensorShape(10, 20)
            /\ arg.b.shape = TensorShape(20, 30)
            /\ arg.c.shape = TensorShape(10, 30)) => ret.value
        /\ (/\ arg.a.shape = TensorShape(10, 20)
            /\ arg.b.shape = TensorShape(21, 30)) => ~ret.value

\* A request that differs from a compatible one only in the columns of B has
\* been answered.
C16_Witness ==
    /\ arg.fn = "is_gemm_compatible" /\ Returned
    /\ arg.a.shape = TensorShape(2, 1)
    /\ arg.b.shape = TensorShape(1, 2)
    /\ arg.c.shape = TensorShape(2, 1)
    /\ ~ret.value

\* C17: a row-major layout puts (r, c) at r * cols + c, a column-major layout
\* puts it at c * rows + r.
C17_IndexFormulas ==
    (arg.fn = "index" /\ Returned) =>
        /\ arg.self.layout.kind = "RowMajor" =>
              ret.value = arg.row * arg.self.shape.cols + arg.col
        /\ arg.self.layout.kind = "ColumnMajor" =>
              ret.value = arg.col * arg.self.shape.rows + arg.row

\* Element (1, 2) of a 2 x 3 column-major matrix is at 2 * 2 + 1.
C17_Witness ==
    /\ arg.fn = "index" /\ Returned
    /\ arg.self = column_major(2, 3)
    /\ arg.row = 1 /\ arg.col = 2
    /\ ret.value = 5

\* Both elements are inside the matrix and, for a tiled layout, in one tile.
SameTile(self, r1, c1, r2, c2) ==
    /\ r2 < self.shape.rows /\ c2 < self.shape.cols
    /\ self.layout.kind = "Tiled" =>
          /\ r1 \div self.layout.tile_m = r2 \div self.layout.tile_m
          /\ c1 \div self.layout.tile_n = c2 \div self.layout.tile_n

\* C18: for row-major, column-major and tiled layouts, row_stride is
\* index(r + 1, c) - index(r, c) and col_stride is index(r, c + 1) -
\* index(r, c), for elements inside the matrix (inside one tile when tiled).
C18_StridesAreIndexSteps ==
    (arg.fn \in {"row_stride", "col_stride"} /\ Returned) =>
        \A r \in 0..(arg.self.shape.rows - 1), c \in 0..(arg.self.shape.cols - 1) :
            /\ (arg.fn = "row_stride" /\ SameTile(arg.self, r, c, r + 1, c)) =>
                  ret.value = index(arg.self, r + 1, c) - index(arg.self, r, c)
            /\ (arg.fn = "col_stride" /\ SameTile(arg.self, r, c, r, c + 1)) =>
                  ret.value = index(arg.self, r, c + 1) - index(arg.self, r, c)

\* C19: warps_per_block is ceil(tile_m / warp_m) * ceil(tile_n / warp_n) and
\* threads_per_block is 32 times that; the Ampere default has 16 warps and 512
\* threads; in both defaults the warp tile is no larger than the block tile.
C19_WarpsAndThreads ==
    (arg.fn \in {"warps_per_block", "threads_per_block"} /\ Returned) =>
        LET Ceil(x, y) == CHOOSE q \in 0..x : q * y >= x /\ (q - 1) * y < x
            warps == Ceil(arg.self.tile_m, arg.self.warp_m)
                       * Ceil(arg.self.tile_n, arg.self.warp_n)
        IN  /\ arg.fn = "warps_per_block" => ret.value = warps
            /\ arg.fn = "threads_per_block" => ret.value = warps * 32
            /\ (arg.self = ampere_default /\ arg.fn = "warps_per_block") =>
                  ret.value = 16
            /\ (arg.self = ampere_default /\ arg.fn = "threads_per_block") =>
                  ret.value = 512
            /\ \A d \in {ampere_default, hopper_default} :
                  d.warp_m <= d.tile_m /\ d.warp_n <= d.tile_n /\ d.warp_k <= d.tile_k

\* A block tile that the warp tile does not divide: 3 x 3 over 2 x 2 warps.
C19_Witness ==
    /\ arg.fn = "threads_per_block" /\ Returned
    /\ arg.self = TileConfig(3, 3, 1, 2, 2, 1)
    /\ ret.value = 128

\* C20: for every max_threads_per_block >= 1 the block size (x, y, z) that
\* calculate_block_size returns has x * y * z <= max_threads_per_block.
C20_BlockFitsDeviceLimit ==
    (arg.fn = "calculate_block_size" /\ Returned) =>
        ret.value[1] * ret.value[2] * ret.value[3] <= arg.max_threads_per_block


\* C23: for every layout built by row_major, column_major or tiled with
\* positive extents (rows or cols need not be multiples of the tile extents),
\* index is a bijection from the coordinates inside the matrix onto
\* 0 .. shape.size() - 1: distinct coordinates get distinct offsets and every
\* offset is below rows * cols.
C23_IndexIsBijection ==
    (arg.fn = "index" /\ Returned) =>
        /\ ret.value < arg.self.shape.rows * arg.self.shape.cols
        /\ \A r \in 0..(arg.self.shape.rows - 1), c \in 0..(arg.self.shape.cols - 1) :
              <<r, c>> # <<arg.row, arg.col>> => index(arg.self, r, c) # ret.value

-----------------------------------------------------------------------------
(* One thread of a launch (SpecThread).                                    *)

SubTile == (0..(WMMA_M - 1)) \X (0..(WMMA_N - 1))

\* C21: in the load phase of each K-chunk of gemm_kernel_tiled, every thread
\* of the block writes exactly one element of TILE_A and exactly one element
\* of TILE_B, and no two threads of the block write the same scratch element.
C21_OneScratchElementPerThread ==
    (kernel = "gemm_kernel_tiled" /\ phase = "acc") =>
        /\ Cardinality(scratch_wr.a) = 1
        /\ Cardinality(scratch_wr.b) = 1
        /\ \A t \in TiledLoadersA(block_size) \ {tid} :
              <<0, IndexY(t, block_size), IndexX(t, block_size)>> \notin scratch_wr.a
        /\ \A t \in TiledLoadersB(block_size) \ {tid} :
              <<0, IndexY(t, block_size), IndexX(t, block_size)>> \notin scratch_wr.b

\* C22: in each K-chunk of gemm_kernel_wmma, for every block thread count the
\* host can select, the cooperative load writes every element of SMEM_A
\* (64 x 16) and of SMEM_B (16 x 64) exactly once before the barrier: the index
\* ranges of the threads are pairwise disjoint and together cover all 1024
\* elements of each buffer. Every thread stores elements_per_thread distinct
\* elements; the ranges of all threads together are the whole buffer and hold
\* as many indices as the buffer has elements, so no two of them meet. (The
\* two statements about the block are evaluated in the states of thread 0.)
C22_CooperativeLoadCovers ==
    (kernel = "gemm_kernel_wmma" /\ phase = "acc") =>
        LET bs == block_size
            ept_a == ElementsPerThreadA(bs)
            ept_b == ElementsPerThreadB(bs)
            mine_a == {w[2] * WMMA_K + w[3] : w \in scratch_wr.a}
            mine_b == {w[2] * (WMMA_N * 4) + w[3] : w \in scratch_wr.b}
        IN  /\ Cardinality(mine_a) = ept_a /\ Cardinality(scratch_wr.a) = ept_a
            /\ Cardinality(mine_b) = ept_b /\ Cardinality(scratch_wr.b) = ept_b
            /\ mine_a = WmmaThreadIdx(tid, ept_a)
            /\ mine_b = WmmaThreadIdx(tid, ept_b)
            /\ tid = 0 =>
                  /\ UNION {WmmaThreadIdx(t, ept_a) : t \in Threads(bs)}
                       = 0..(WMMA_M * 4 * WMMA_K - 1)
                  /\ UNION {WmmaThreadIdx(t, ept_b) : t \in Threads(bs)}
                       = 0..(WMMA_K * WMMA_N * 4 - 1)
                  /\ NumThreads(bs) * ept_a = WMMA_M * 4 * WMMA_K
                  /\ NumThreads(bs) * ept_b = WMMA_K * WMMA_N * 4

\* The last thread of a 16 x 16 block has loaded its four elements of the
\* second chunk.
C22_Witness ==
    /\ kernel = "gemm_kernel_wmma" /\ phase = "acc" /\ tile_idx = 1
    /\ max_threads = 512 /\ tid = 255
    /\ Cardinality(scratch_wr.a) = 4 /\ Cardinality(scratch_wr.b) = 4

\* Every access is at a coordinate inside its matrix and at the linear index
\* of that coordinate.
AccessesInRange ==
    /\ \A g \in global_acc.a :
          g[2] < m /\ g[3] < k /\ g[4] = g[2] * k + g[3] /\ g[4] \in 0..(m * k - 1)
    /\ \A g \in global_acc.b :
          g[2] < k /\ g[3] < n /\ g[4] = g[2] * n + g[3] /\ g[4] \in 0..(k * n - 1)
    /\ \A g \in global_acc.c :
          g[2] < m /\ g[3] < n /\ g[4] = g[2] * n + g[3] /\ g[4] \in 0..(m * n - 1)

\* The output coordinates of the thread (for gemm_kernel_wmma, the origin of
\* its warp's sub-tile) are outside C.
ThreadOutsideC ==
    IF kernel = "gemm_kernel"
    THEN GemmRow(tid, cur, block_size) >= m \/ GemmCol(tid, cur, block_size) >= n
    ELSE IF kernel = "gemm_kernel_tiled"
    THEN \/ TiledRow(IndexY(tid, block_size), cur) >= m
         \/ TiledCol(IndexX(tid, block_size), cur) >= n
    ELSE WarpRow(WarpId(tid), cur) >= m \/ WarpCol(WarpId(tid), cur) >= n

\* C24, as stated: every global read of A uses an index in [0, m*k), every
\* read of B an index in [0, k*n), every read or write of C an index in
\* [0, m*n), and a thread whose coordinates fall outside the matrices performs
\* no global access.
C24_NoAccessFromOutside ==
    /\ AccessesInRange
    /\ ThreadOutsideC => global_acc = NoAccess

\* C24, amended: every global access is at a coordinate inside its matrix and
\* at an index inside the buffer; a thread of gemm_kernel whose coordinates
\* are outside C performs no global access, and a thread of gemm_kernel_tiled
\* or gemm_kernel_wmma whose coordinates are outside C performs no access to
\* C (it still loads its share of A and B into the scratch).
C24_AccessesInsideMatrices ==
    /\ AccessesInRange
    /\ ThreadOutsideC =>
          /\ global_acc.c = {}
          /\ kernel = "gemm_kernel" => global_acc = NoAccess

\* A thread of gemm_kernel_tiled outside C has finished; it loaded from A.
C24_Witness ==
    /\ kernel = "gemm_kernel_tiled" /\ phase = "done"
    /\ ThreadOutsideC
    /\ global_acc.a # {} /\ global_acc.c = {}

\* C25: in gemm_kernel_wmma, for every block shape the host can select and
\* every warp and lane, each access to the scratch stays inside SMEM_A
\* (64 rows x 16 columns) and SMEM_B (16 rows x 64 columns); in particular
\* the row index warp_row_local + row_offset and the column index
\* warp_col_local + col_offset of the fragment loads are below 64.
C25_ScratchAccessInBounds ==
    kernel = "gemm_kernel_wmma" =>
        /\ \A x \in scratch_wr.a \cup scratch_rd.a : x[2] < WMMA_M * 4 /\ x[3] < WMMA_K
        /\ \A x \in scratch_wr.b \cup scratch_rd.b : x[2] < WMMA_K /\ x[3] < WMMA_N * 4

\* C26: the mapping (lane_id, i) -> ((lane_id/4)*2 + i/4, (i%4)*4 + lane_id%4)
\* of the A fragment and of the accumulator write-back is a bijection from
\* {0..31} x {0..7} onto the 16 x 16 sub-tile: within one warp every element
\* is held by exactly one (lane, slot), and the epilogue writes each in-bounds
\* element of the warp's sub-tile exactly once. (Coverage is a property of the
\* warp; it is evaluated in the states of lane 0.)
C26_FragmentAIsBijection ==
    kernel = "gemm_kernel_wmma" =>
        LET w == WarpId(tid)
            lane == LaneId(tid)
            held == {<<x[2] - WarpRowLocal(w), x[3]>> : x \in scratch_rd.a}
            others == {<<FragRowA(l, i), FragColA(l, i)>> :
                          l \in Lanes \ {lane}, i \in FragSlots}
            stored == {<<g[2], g[3]>> : g \in global_acc.c}
            due == {p \in {<<WarpRow(w, cur) + FragRowA(lane, i),
                             WarpCol(w, cur) + FragColA(lane, i)>> : i \in FragSlots} :
                       p[1] < m /\ p[2] < n}
        IN  /\ (tile_idx > 0 /\ phase # "aborted") =>
                  /\ Cardinality(scratch_rd.a) = 8
                  /\ Cardinality(held) = 8
                  /\ held \subseteq SubTile
                  /\ held \cap others = {}
                  /\ lane = 0 => HeldA = SubTile
            /\ phase = "done" =>
                  /\ Cardinality(stored) = Cardinality(global_acc.c)
                  /\ stored = due

\* A lane of a warp whose sub-tile is inside C has written back its 8 slots.
C26_Witness ==
    /\ kernel = "gemm_kernel_wmma" /\ phase = "done"
    /\ Cardinality(global_acc.c) = 8
    /\ LaneId(tid) = 1

\* C27: the mapping (lane_id, i) -> ((i/4)*4 + lane_id/8, (lane_id%8)*2 +
\* (i%4)/2) of the B fragment is a bijection from {0..31} x {0..7} onto the
\* 16 x 16 B sub-tile: every one of its 16 K-rows and 16 columns is loaded
\* into exactly one (lane, slot), none omitted and none duplicated.
C27_FragmentBIsBijection ==
    (kernel = "gemm_kernel_wmma" /\ tile_idx > 0 /\ phase # "aborted") =>
        LET w == WarpId(tid)
            lane == LaneId(tid)
            held == {<<x[2], x[3] - WarpColLocal(w)>> : x \in scratch_rd.b}
            others == {<<FragRowB(l, i), FragColB(l, i)>> :
                          l \in Lanes \ {lane}, i \in FragSlots}
        IN  /\ Cardinality(scratch_rd.b) = 8
            /\ Cardinality(held) = 8
            /\ held \subseteq SubTile
            /\ held \cap others = {}
            /\ lane = 0 => HeldB = SubTile

-----------------------------------------------------------------------------
(* The host program (SpecHost).                                            *)

\* C11: whenever the host starts a timer or copies C back, every launch made
\* before has been synchronized: launch does not return Ok before the stream
\* has drained.
C11_LaunchesSynchronized ==
    hpc \in {"launch_return", "timer", "copy_to_host", "verify"} => pending = 0

\* The last benchmark launch has returned and C is about to be copied back.
C11_Witness ==
    hpc = "copy_to_host" /\ started = 1 + num_runs /\ pending = 0

\* C12: a failure of context creation, allocation or upload, kernel load,
\* entry-point resolution, launch or synchronization is returned to the
\* caller and main returns it; after the first failure nothing more is
\* launched, downloaded or verified, and the failure never becomes a success.
C12_FailuresPropagate ==
    [][failed_op' # "none" =>
          /\ hpc' = "exit" /\ outcome' = "err"
          /\ failed_op # "none" => UNCHANGED <<host_vars, launches>>]_vars

\* The third launch failed to synchronize and main has returned the error.
C12_Witness ==
    /\ failed_op = "synchronize" /\ started = 3 /\ launches = 2
    /\ hpc = "exit" /\ outcome = "err"

\* C15: shape compatibility and buffer sizes are checked before any launch:
\* an incompatible request is rejected before any device interaction.
C15_CheckedBeforeLaunch ==
    started > 0 =>
        /\ is_gemm_compatible(operands.a, operands.b, operands.c)
        /\ operands.a.shape = TensorShape(m, k)
        /\ operands.c.shape = TensorShape(m, n)
        /\ operands.len.a >= m * k
        /\ operands.len.b >= k * n
        /\ operands.len.c >= m * n

=============================================================================
